---- MODULE Spec2Model ----
(***************************************************************************)
(* Model of the useProducts hook (src/hooks/useProducts.ts): the four      *)
(* useState cells, the effect that issues one cancellable fetch per        *)
(* activation, the promise chain then/then/catch/finally, and the effect   *)
(* cleanup that aborts the request.                                        *)
(*                                                                         *)
(* The promise callbacks are microtasks: once a request settles, its       *)
(* callbacks run to completion before any other task (a transport event,   *)
(* a React commit) is taken.  React runs the effect once on mount and,     *)
(* under StrictMode (src/main.tsx), cleans it up and runs it a second time *)
(* in the same commit.                                                     *)
(***************************************************************************)
EXTENDS Naturals, Sequences, FiniteSets

VARIABLES products, featuredIds, loading, error, acts, react, strict,
          moduleObjects

vars ==
  <<products, featuredIds, loading, error, acts, react, strict, moduleObjects>>

\* ---------------------------------------------------------------- bounds

\* Longest remote array the transport delivers.
MaxRemoteLen == 2

\* Number of times the merge callback is applied to the same payload.
MaxReconciles == 2

\* ------------------------------------------------------------ static data

\* A JavaScript property that is absent reads as undefined.
Undefined == "undefined"

\* The static catalog (data/products.ts): ordered, names unique, ids unique.
fallbackProducts ==
  << [id |-> "u8", name |-> "A", images |-> "local", featured |-> Undefined],
     [id |-> "l5", name |-> "B", images |-> "local", featured |-> Undefined],
     [id |-> "c1", name |-> "C", images |-> "local", featured |-> Undefined] >>

DEFAULT_FEATURED_IDS == {"u8", "l5", "d13", "d10", "d6", "d12"}

\* The objects the module creates when it is loaded: the imported array of
\* static products and the Set of default featured ids.  The state cells
\* are initialised with references to them.
ModuleObjects ==
  [fallbackProducts |-> fallbackProducts,
   DEFAULT_FEATURED_IDS |-> DEFAULT_FEATURED_IDS]

\* ------------------------------------------------------------ remote data

\* A JSON null inside the remote array.
NullEntry == [null |-> TRUE]

IsNull(e) == DOMAIN e = {"null"}

\* Values the featured field of a remote record can carry: the booleans,
\* absent, and a non-boolean (the number 1).
FeaturedVals == {"true", "false", Undefined, "1"}

\* JavaScript truthiness of such a value.
Truthy(v) == v \in {"true", "1"}

\* Remote records: a static name with the static id or another one, and new
\* names with ids the remote source assigns (one of them colliding with a
\* static id).
RemoteRecords ==
  { [id |-> i, name |-> "A", images |-> "remote", featured |-> f] :
        i \in {"u8", "r1"}, f \in FeaturedVals }
  \cup
  { [id |-> "r2", name |-> "B", images |-> "remote", featured |-> f] :
        f \in FeaturedVals }
  \cup
  { [id |-> i, name |-> "D", images |-> "remote", featured |-> f] :
        i \in {"r1", "u8"}, f \in FeaturedVals }
  \cup
  { [id |-> "r1", name |-> "E", images |-> "remote", featured |-> f] :
        f \in FeaturedVals }

RemoteEntries == RemoteRecords \cup {NullEntry}

SeqsUpTo(S, n) == UNION { [1..k -> S] : k \in 0..n }

\* What res.json() can resolve to: a non-array value or an array of entries.
NonArray == [isArray |-> FALSE, items |-> << >>]

JsonValues ==
  {NonArray} \cup
  { [isArray |-> TRUE, items |-> s] : s \in SeqsUpTo(RemoteEntries, MaxRemoteLen) }

\* HTTP statuses the endpoint answers with.
Statuses == {200, 299, 300, 404, 500}

\* A check that lets 3xx and 4xx through.
okBelow500(status) == status >= 200 /\ status < 500

\* Response.ok
ok(status) == status >= 200 /\ status <= 299

\* ------------------------------------------------------------- activations

\* An activation that is handed the controller of the previous activation:
\* a fetch on a signal that is already aborted rejects at once.
NewActivationSharedController ==
  IF acts # << >> /\ acts[Len(acts)].aborted
    THEN [pc |-> "catch", aborted |-> TRUE, status |-> 0, err |-> "AbortError",
          data |-> [isArray |-> FALSE, items |-> << >>]]
    ELSE [pc |-> "fetching", aborted |-> FALSE, status |-> 0, err |-> "none",
          data |-> [isArray |-> FALSE, items |-> << >>]]

\* One run of the effect: its AbortController and its promise chain.
NewActivation ==
  [pc |-> "fetching", aborted |-> FALSE, status |-> 0, err |-> "none",
   data |-> NonArray]

Pending == {"fetching", "reading"}
Microtask == {"then1", "then2", "catch", "finally"}

\* A callback of some promise chain is queued.
MicrotaskPending == \E a \in DOMAIN acts : acts[a].pc \in Microtask

\* React is in the middle of the StrictMode mount commit.
CommitRunning == react \in {"strictCleanup", "rerun"}

\* A new task (transport event, unmount) can start.
TaskCanStart == ~CommitRunning /\ ~MicrotaskPending

\* The component instance still holds state.
mounted == react # "unmounted"

\* ------------------------------------------------------------- state cells

setProducts(v) == products' = IF mounted THEN v ELSE products
setFeaturedIds(v) == featuredIds' = IF mounted THEN v ELSE featuredIds
setLoading(v) == loading' = IF mounted THEN v ELSE loading
setError(v) == error' = IF mounted THEN v ELSE error

\* ------------------------------------------------------------------ merge

Array_isArray(data) == data.isArray

\* if (!Array.isArray(data) || data.length === 0) return
noUsableDataNoLength(data) == ~Array_isArray(data)

noUsableData(data) == ~Array_isArray(data) \/ Len(data.items) = 0

\* data.map((p) => p.name) reads a property of null: TypeError.
Throws(data) == \E i \in DOMAIN data.items : IsNull(data.items[i])

nonSoldNames(data) == { data.items[i].name : i \in DOMAIN data.items }

staticNames == { fallbackProducts[i].name : i \in DOMAIN fallbackProducts }

\* A filter applied to the working catalog instead of the static one.
filteredStaticFromState(data) ==
  SelectSeq(products, LAMBDA p : p.name \in nonSoldNames(data))

\* A filter that keeps every static product.
filteredStaticKeepAll(data) == fallbackProducts

filteredStatic(data) ==
  SelectSeq(fallbackProducts, LAMBDA p : p.name \in nonSoldNames(data))

\* New products given the local image reference of the static catalog.
newProductsLocalImages(data) ==
  LET new == SelectSeq(data.items, LAMBDA p : p.name \notin staticNames)
  IN  [i \in DOMAIN new |-> [new[i] EXCEPT !.images = "local"]]

\* Every remote record taken as new, whether or not its name is static.
newProductsUnfiltered(data) == data.items

newProducts(data) ==
  SelectSeq(data.items, LAMBDA p : p.name \notin staticNames)

\* The two segments joined the other way round.
mergedNewFirst(data) == newProducts(data) \o filteredStatic(data)

merged(data) == filteredStatic(data) \o newProducts(data)

featuredNames(data) ==
  { data.items[i].name :
      i \in { j \in DOMAIN data.items : Truthy(data.items[j].featured) } }

\* Featured ids read off the flagged remote records themselves.
featuredFromAirtableRemoteIds(data) ==
  { data.items[i].id :
      i \in { j \in DOMAIN data.items : Truthy(data.items[j].featured) } }

featuredFromAirtable(data) ==
  { merged(data)[i].id :
      i \in { j \in DOMAIN merged(data) :
                merged(data)[j].name \in featuredNames(data) } }

\* ----------------------------------------------------------------- derived

\* A derived list filtered out of the static catalog.
featuredProductsFromStatic ==
  SelectSeq(fallbackProducts, LAMBDA p : p.id \in featuredIds)

\* A derived list that ignores the featured id set.
featuredProductsAll == products

featuredProducts == SelectSeq(products, LAMBDA p : p.id \in featuredIds)

\* What Array.prototype.find returns when no element matches.
AbsentProduct == [undefined |-> TRUE]

\* A lookup that answers a miss with the first record of the catalog.
getProductByIdOrFirst(id) ==
  IF \E i \in DOMAIN products : products[i].id = id
    THEN products[CHOOSE i \in DOMAIN products :
                    /\ products[i].id = id
                    /\ \A j \in 1..(i - 1) : products[j].id # id]
    ELSE IF products = << >> THEN AbsentProduct ELSE products[1]

\* products.find((p) => p.id === id): the first match, or undefined.
getProductById(id) ==
  IF \E i \in DOMAIN products : products[i].id = id
    THEN products[CHOOSE i \in DOMAIN products :
                    /\ products[i].id = id
                    /\ \A j \in 1..(i - 1) : products[j].id # id]
    ELSE AbsentProduct

\* ------------------------------------------------------------------- Init

Init ==
  /\ products = fallbackProducts
  /\ featuredIds = DEFAULT_FEATURED_IDS
  /\ loading = TRUE
  /\ error = "null"
  /\ acts = << >>
  /\ react = "init"
  /\ strict \in BOOLEAN
  /\ moduleObjects = ModuleObjects

\* ---------------------------------------------------------------- actions

\* The effect body: a fresh controller and one fetch.
RunEffect ==
  /\ react \in {"init", "rerun"}
  /\ acts' = Append(acts, NewActivation)
  /\ react' = IF react = "init" /\ strict THEN "strictCleanup" ELSE "mounted"
  /\ UNCHANGED <<products, featuredIds, loading, error, strict,
               moduleObjects>>

\* A controller whose signal the fetch does not observe.
abortUnobserved(act) == [act EXCEPT !.aborted = TRUE]

\* controller.abort(): a pending fetch or body read rejects with AbortError;
\* a settled request is not affected.
abort(act) ==
  IF act.pc \in Pending
    THEN [act EXCEPT !.aborted = TRUE, !.pc = "catch", !.err = "AbortError"]
    ELSE [act EXCEPT !.aborted = TRUE]

\* The effect cleanup, run by StrictMode before the second run of the effect.
StrictCleanup ==
  /\ react = "strictCleanup"
  /\ acts' = [acts EXCEPT ![Len(acts)] = abort(acts[Len(acts)])]
  /\ react' = "rerun"
  /\ UNCHANGED <<products, featuredIds, loading, error, strict,
               moduleObjects>>

\* The effect cleanup, run when the component unmounts.
Unmount ==
  /\ react = "mounted"
  /\ TaskCanStart
  /\ acts' = [acts EXCEPT ![Len(acts)] = abort(acts[Len(acts)])]
  /\ react' = "unmounted"
  /\ UNCHANGED <<products, featuredIds, loading, error, strict,
               moduleObjects>>

\* The transport delivers the response head.
FetchResolve(a) ==
  /\ TaskCanStart
  /\ acts[a].pc = "fetching"
  /\ \E s \in Statuses :
       acts' = [acts EXCEPT ![a].pc = "then1", ![a].status = s]
  /\ UNCHANGED <<products, featuredIds, loading, error, react, strict, moduleObjects>>

\* The transport fails: fetch rejects with a TypeError.
FetchReject(a) ==
  /\ TaskCanStart
  /\ acts[a].pc = "fetching"
  /\ acts' = [acts EXCEPT ![a].pc = "catch", ![a].err = "TypeError"]
  /\ UNCHANGED <<products, featuredIds, loading, error, react, strict, moduleObjects>>

\* A first callback that raises loading again before it looks at the status.
Then1MarksLoading(a) ==
  /\ ~CommitRunning
  /\ acts[a].pc = "then1"
  /\ acts' = IF ~ok(acts[a].status)
               THEN [acts EXCEPT ![a].pc = "catch", ![a].err = "Error"]
               ELSE [acts EXCEPT ![a].pc = "reading"]
  /\ setLoading(TRUE)
  /\ UNCHANGED <<products, featuredIds, error, react, strict, moduleObjects>>

\* First then: non-ok statuses throw, otherwise the body is read as JSON.
Then1(a) ==
  /\ ~CommitRunning
  /\ acts[a].pc = "then1"
  /\ acts' = IF ~ok(acts[a].status)
               THEN [acts EXCEPT ![a].pc = "catch", ![a].err = "Error"]
               ELSE [acts EXCEPT ![a].pc = "reading"]
  /\ UNCHANGED <<products, featuredIds, loading, error, react, strict, moduleObjects>>

\* The body has been read and parsed.
JsonResolve(a) ==
  /\ TaskCanStart
  /\ acts[a].pc = "reading"
  /\ \E d \in JsonValues :
       acts' = [acts EXCEPT ![a].pc = "then2", ![a].data = d]
  /\ UNCHANGED <<products, featuredIds, loading, error, react, strict, moduleObjects>>

\* The body is not JSON: res.json() rejects with a SyntaxError.
JsonReject(a) ==
  /\ TaskCanStart
  /\ acts[a].pc = "reading"
  /\ acts' = [acts EXCEPT ![a].pc = "catch", ![a].err = "SyntaxError"]
  /\ UNCHANGED <<products, featuredIds, loading, error, react, strict, moduleObjects>>

\* A merge callback placed after the catch handler: what it throws is
\* handled by nobody and the chain stops.
Then2ThrowUnhandled(a) ==
  LET data == acts[a].data IN
  /\ ~CommitRunning
  /\ acts[a].pc = "then2"
  /\ IF noUsableData(data)
       THEN /\ acts' = [acts EXCEPT ![a].pc = "finally"]
            /\ UNCHANGED <<products, featuredIds>>
       ELSE IF Throws(data)
         THEN /\ acts' = [acts EXCEPT ![a].pc = "done", ![a].err = "TypeError"]
              /\ UNCHANGED <<products, featuredIds>>
         ELSE /\ acts' = [acts EXCEPT ![a].pc = "finally"]
              /\ setProducts(merged(data))
              /\ IF Cardinality(featuredFromAirtable(data)) > 0
                   THEN setFeaturedIds(featuredFromAirtable(data))
                   ELSE UNCHANGED featuredIds
  /\ UNCHANGED <<loading, error, react, strict, moduleObjects>>

\* A merge callback that replaces the catalog with the non-null entries
\* before it reads a property of a null entry and throws.
Then2ThrowAfterSet(a) ==
  LET data == acts[a].data IN
  /\ ~CommitRunning
  /\ acts[a].pc = "then2"
  /\ IF noUsableData(data)
       THEN /\ acts' = [acts EXCEPT ![a].pc = "finally"]
            /\ UNCHANGED <<products, featuredIds>>
       ELSE IF Throws(data)
         THEN /\ acts' = [acts EXCEPT ![a].pc = "catch", ![a].err = "TypeError"]
              /\ setProducts(SelectSeq(data.items, LAMBDA p : ~IsNull(p)))
              /\ UNCHANGED featuredIds
         ELSE /\ acts' = [acts EXCEPT ![a].pc = "finally"]
              /\ setProducts(merged(data))
              /\ IF Cardinality(featuredFromAirtable(data)) > 0
                   THEN setFeaturedIds(featuredFromAirtable(data))
                   ELSE UNCHANGED featuredIds
  /\ UNCHANGED <<loading, error, react, strict, moduleObjects>>

\* A merge callback that replaces the catalog and leaves the featured set.
Then2ProductsOnly(a) ==
  LET data == acts[a].data IN
  /\ ~CommitRunning
  /\ acts[a].pc = "then2"
  /\ IF noUsableData(data)
       THEN /\ acts' = [acts EXCEPT ![a].pc = "finally"]
            /\ UNCHANGED products
       ELSE IF Throws(data)
         THEN /\ acts' = [acts EXCEPT ![a].pc = "catch", ![a].err = "TypeError"]
              /\ UNCHANGED products
         ELSE /\ acts' = [acts EXCEPT ![a].pc = "finally"]
              /\ setProducts(merged(data))
  /\ UNCHANGED <<featuredIds, loading, error, react, strict, moduleObjects>>

\* A merge callback that drops the sold products from the imported array
\* itself (splice) and deletes the ids it replaces from the default Set.
Then2InPlace(a) ==
  LET data == acts[a].data IN
  /\ ~CommitRunning
  /\ acts[a].pc = "then2"
  /\ IF noUsableData(data)
       THEN /\ acts' = [acts EXCEPT ![a].pc = "finally"]
            /\ UNCHANGED <<products, featuredIds, moduleObjects>>
       ELSE IF Throws(data)
         THEN /\ acts' = [acts EXCEPT ![a].pc = "catch", ![a].err = "TypeError"]
              /\ UNCHANGED <<products, featuredIds, moduleObjects>>
         ELSE /\ acts' = [acts EXCEPT ![a].pc = "finally"]
              /\ setProducts(merged(data))
              /\ IF Cardinality(featuredFromAirtable(data)) > 0
                   THEN /\ setFeaturedIds(featuredFromAirtable(data))
                        /\ moduleObjects' =
                             [fallbackProducts |-> filteredStatic(data),
                              DEFAULT_FEATURED_IDS |-> featuredFromAirtable(data)]
                   ELSE /\ UNCHANGED featuredIds
                        /\ moduleObjects' =
                             [moduleObjects EXCEPT
                                !.fallbackProducts = filteredStatic(data)]
  /\ UNCHANGED <<loading, error, react, strict>>

\* Second then: the merge.
Then2(a) ==
  LET data == acts[a].data IN
  /\ ~CommitRunning
  /\ acts[a].pc = "then2"
  /\ IF noUsableData(data)
       THEN /\ acts' = [acts EXCEPT ![a].pc = "finally"]
            /\ UNCHANGED <<products, featuredIds>>
       ELSE IF Throws(data)
         THEN /\ acts' = [acts EXCEPT ![a].pc = "catch", ![a].err = "TypeError"]
              /\ UNCHANGED <<products, featuredIds>>
         ELSE /\ acts' = [acts EXCEPT ![a].pc = "finally"]
              /\ setProducts(merged(data))
              /\ IF Cardinality(featuredFromAirtable(data)) > 0
                   THEN setFeaturedIds(featuredFromAirtable(data))
                   ELSE UNCHANGED featuredIds
  /\ UNCHANGED <<loading, error, react, strict, moduleObjects>>

\* A catch handler that issues the request again after a failure.
CatchRetry(a) ==
  /\ ~CommitRunning
  /\ acts[a].pc = "catch"
  /\ IF acts[a].err # "AbortError"
       THEN /\ acts' = [acts EXCEPT ![a].pc = "fetching", ![a].status = 0,
                                    ![a].err = "none"]
            /\ setError("offline")
       ELSE /\ acts' = [acts EXCEPT ![a].pc = "finally"]
            /\ UNCHANGED error
  /\ UNCHANGED <<products, featuredIds, loading, react, strict, moduleObjects>>

\* A catch handler that does not look at err.name.
CatchAnyError(a) ==
  /\ ~CommitRunning
  /\ acts[a].pc = "catch"
  /\ acts' = [acts EXCEPT ![a].pc = "finally"]
  /\ setError("offline")
  /\ UNCHANGED <<products, featuredIds, loading, react, strict, moduleObjects>>

\* The catch handler.
Catch(a) ==
  /\ ~CommitRunning
  /\ acts[a].pc = "catch"
  /\ acts' = [acts EXCEPT ![a].pc = "finally"]
  /\ IF acts[a].err # "AbortError"
       THEN setError("offline")
       ELSE UNCHANGED error
  /\ UNCHANGED <<products, featuredIds, loading, react, strict, moduleObjects>>

\* A finally handler that leaves loading alone.
FinallyKeepsLoading(a) ==
  /\ ~CommitRunning
  /\ acts[a].pc = "finally"
  /\ acts' = [acts EXCEPT ![a].pc = "done"]
  /\ UNCHANGED <<products, featuredIds, loading, error, react, strict, moduleObjects>>

\* The finally handler.
Finally(a) ==
  /\ ~CommitRunning
  /\ acts[a].pc = "finally"
  /\ acts' = [acts EXCEPT ![a].pc = "done"]
  /\ setLoading(FALSE)
  /\ UNCHANGED <<products, featuredIds, error, react, strict, moduleObjects>>

Next ==
  \/ RunEffect
  \/ StrictCleanup
  \/ Unmount
  \/ \E a \in DOMAIN acts : FetchResolve(a)
  \/ \E a \in DOMAIN acts : FetchReject(a)
  \/ \E a \in DOMAIN acts : Then1(a)
  \/ \E a \in DOMAIN acts : JsonResolve(a)
  \/ \E a \in DOMAIN acts : JsonReject(a)
  \/ \E a \in DOMAIN acts : Then2(a)
  \/ \E a \in DOMAIN acts : Catch(a)
  \/ \E a \in DOMAIN acts : Finally(a)

Spec == Init /\ [][Next]_vars

\* A queued callback of the chain of activation a runs.  The event loop runs
\* every queued promise callback, and React finishes
\* the mount commit it has started; the transport and the unmount are under
\* no obligation.
Callback(a) ==
  /\ a \in DOMAIN acts
  /\ (Then1(a) \/ Then2(a) \/ Catch(a) \/ Finally(a))

LiveSpec ==
  /\ Spec
  /\ WF_vars(RunEffect)
  /\ WF_vars(StrictCleanup)
  /\ \A a \in 1..2 : WF_vars(Callback(a))

\* ------------------------------------------- the merge callback, repeated

\* A mounted hook whose request has been answered 200 with some payload: the
\* merge callback is about to run on it.
InitReconcile ==
  /\ products = fallbackProducts
  /\ featuredIds = DEFAULT_FEATURED_IDS
  /\ loading = TRUE
  /\ error = "null"
  /\ react = "mounted"
  /\ strict = FALSE
  /\ moduleObjects = ModuleObjects
  /\ \E d \in JsonValues :
       acts = << [NewActivation EXCEPT !.pc = "then2", !.status = 200,
                                       !.data = d] >>

\* The same payload arrives once more and the merge callback is queued on
\* the state the previous reconciliation left.
SamePayloadAgain ==
  /\ Len(acts) < MaxReconciles
  /\ acts[Len(acts)].pc = "done"
  /\ acts' = Append(acts, [acts[Len(acts)] EXCEPT !.pc = "then2",
                                                  !.err = "none"])
  /\ UNCHANGED <<products, featuredIds, loading, error, react, strict, moduleObjects>>

NextReconcile ==
  \/ \E a \in DOMAIN acts : Then2(a)
  \/ \E a \in DOMAIN acts : Catch(a)
  \/ \E a \in DOMAIN acts : Finally(a)
  \/ SamePayloadAgain

SpecReconcile == InitReconcile /\ [][NextReconcile]_vars

\* ------------------------------------------------- outcomes of a request

Range(s) == { s[i] : i \in DOMAIN s }

\* The callbacks of activation a have all been dispatched up to finally.
Ended(a) == acts[a].pc \in {"finally", "done"}

\* The request of activation a rejected with a network error.
NetworkError(a) == acts[a].err = "TypeError" /\ acts[a].status = 0

\* The response of activation a had a status outside 200..299.
Non2xx(a) == acts[a].status # 0 /\ ~(acts[a].status \in 200..299)

\* The request of activation a was ended by controller.abort().
AbortEnded(a) == acts[a].err = "AbortError"

\* The request of activation a returned [] or a value that is no array.
EmptyOrNonArray(a) ==
  /\ Ended(a) /\ acts[a].err = "none"
  /\ (~acts[a].data.isArray \/ acts[a].data.items = << >>)

\* The request of activation a succeeded with a non-empty array and the
\* merge callback ran to its end.
Merged(a) ==
  /\ Ended(a) /\ acts[a].err = "none"
  /\ acts[a].data.isArray /\ acts[a].data.items # << >>

\* The request of activation a ended without usable data: it failed, was
\* aborted, or returned [] or a non-array.
Unusable(a) ==
  \/ Ended(a) /\ (NetworkError(a) \/ Non2xx(a) \/ AbortEnded(a))
  \/ EmptyOrNonArray(a)

\* Activation a has taken a step.
Stepped(a) == acts'[a] # acts[a]

\* ------------------------------------------------------------------ claims

\* C1 as stated: in every state after an activation whose request rejected
\* with a network error, returned a non-2xx status, was aborted, or returned
\* an empty array or a non-array, products is the static catalog and
\* featuredIds is the default set.
C1_FallbackEveryActivation ==
  \A a \in DOMAIN acts :
    Unusable(a)
    => products = fallbackProducts /\ featuredIds = DEFAULT_FEATURED_IDS

\* C1 amended: after such an activation, products is the static catalog and
\* featuredIds is the default set in every state in which no other activation
\* of the same hook instance has applied a merge of a non-empty array.
C1_FallbackUnlessMerged ==
  ( /\ \E a \in DOMAIN acts : Unusable(a)
    /\ \A a \in DOMAIN acts : ~Merged(a) )
  => products = fallbackProducts /\ featuredIds = DEFAULT_FEATURED_IDS

\* C1 witnesses: an activation that returned [] has finished and the static
\* catalog stands.
C1_Witness ==
  \E a \in DOMAIN acts :
    /\ acts[a].pc = "done" /\ acts[a].err = "none"
    /\ acts[a].data.isArray /\ acts[a].data.items = << >>
    /\ products = fallbackProducts /\ featuredIds = DEFAULT_FEATURED_IDS

\* C2: no step taken by a request after its controller was aborted changes
\* products or featuredIds, so a merge is applied only by a request that was
\* not cancelled.
C2_CancellationSafety ==
  [][ \A a \in DOMAIN acts :
        (acts[a].aborted /\ Stepped(a))
        => (products' = products /\ featuredIds' = featuredIds) ]_vars

\* C2 witness: under StrictMode the first request was aborted in flight, its
\* callbacks have all run, and the component is still mounted.
C2_Witness ==
  /\ Len(acts) = 2 /\ react = "mounted"
  /\ acts[1].aborted /\ acts[1].err = "AbortError" /\ acts[1].pc = "done"
  /\ products = fallbackProducts

\* C3: no step taken by a request after its controller was aborted changes
\* any of products, featuredIds, loading, error.
C3_CancelledCallbacksNoOp ==
  [][ \A a \in DOMAIN acts :
        (acts[a].aborted /\ Stepped(a))
        => UNCHANGED <<products, featuredIds, loading, error>> ]_vars

\* C4: loading is true in every state in which the request of the current
\* (latest) activation has not settled.
C4_LoadingUntilSettled ==
  (Len(acts) > 0 /\ acts[Len(acts)].pc \in Pending) => loading = TRUE

\* Names carried by the records of a remote array.
NamesOf(items) == { items[i].name : i \in DOMAIN items }

\* The names of the static catalog, read off the catalog.
StaticNameSet == { r.name : r \in Range(fallbackProducts) }

\* Number of positions of sequence s holding a record named n.
CountName(s, n) == Cardinality({ i \in DOMAIN s : s[i].name = n })

\* C5: after a merge of a remote array naming the subset S of static names,
\* the static records of products are exactly the static records whose name
\* is in S, each once and in static order, and no static record whose name
\* the remote array lacks is in products.
C5_RetentionRule ==
  \A a \in DOMAIN acts :
    Merged(a) =>
      LET S == NamesOf(acts[a].data.items) \cap StaticNameSet IN
      /\ SelectSeq(products, LAMBDA p : p \in Range(fallbackProducts))
           = SelectSeq(fallbackProducts, LAMBDA p : p.name \in S)
      /\ \A r \in Range(fallbackProducts) :
           r.name \notin NamesOf(acts[a].data.items) => r \notin Range(products)

\* C5 witness: a merge of [B, A] retained A and B in static order and
\* dropped C.
C5_Witness ==
  \E a \in DOMAIN acts :
    /\ Merged(a)
    /\ Len(acts[a].data.items) = 2
    /\ acts[a].data.items[1].name = "B" /\ acts[a].data.items[2].name = "A"
    /\ products = SubSeq(fallbackProducts, 1, 2)

\* C6: after a merge, every remote record whose name is no static name is in
\* products with all its own fields, and every record of products with such
\* a name is one of the remote records.
C6_NewProductInclusion ==
  \A a \in DOMAIN acts :
    Merged(a) =>
      /\ \A r \in Range(acts[a].data.items) :
           r.name \notin StaticNameSet => r \in Range(products)
      /\ \A p \in Range(products) :
           p.name \notin StaticNameSet => p \in Range(acts[a].data.items)

\* C6 witness: a merge appended the remote-only record D carrying an id that
\* collides with a static id, unchanged.
C6_Witness ==
  \E a \in DOMAIN acts :
    /\ Merged(a)
    /\ \E i \in DOMAIN products :
         /\ products[i].name = "D" /\ products[i].id = "u8"
         /\ products[i].images = "remote"
         /\ products[i] \in Range(acts[a].data.items)

\* C7: after a merge, for every name both static and remote, products holds
\* exactly one record of that name, it is the static record unchanged, and
\* no remote record of that name is in products.
C7_StaticWins ==
  \A a \in DOMAIN acts :
    Merged(a) =>
      \A n \in NamesOf(acts[a].data.items) \cap StaticNameSet :
        /\ CountName(products, n) = 1
        /\ \A p \in Range(products) :
             p.name = n => p \in Range(fallbackProducts)
        /\ \A r \in Range(acts[a].data.items) :
             r.name = n => r \notin Range(products)

\* C7 witness: the remote array held a record named A with another id and
\* other images, and products holds the static A.
C7_Witness ==
  \E a \in DOMAIN acts :
    /\ Merged(a)
    /\ \E r \in Range(acts[a].data.items) : r.name = "A" /\ r.id = "r1"
    /\ fallbackProducts[1] \in Range(products)

\* Names of the remote records whose featured field is the boolean true.
TrueFeaturedNames(items) ==
  { items[i].name : i \in { j \in DOMAIN items : items[j].featured = "true" } }

\* C8: after a merge, if some remote record has featured true, featuredIds is
\* exactly the ids of the records of products whose name is the name of such
\* a record; if none has, featuredIds is the default set.
C8_FeaturedPrecedence ==
  \A a \in DOMAIN acts :
    Merged(a) =>
      LET fn == TrueFeaturedNames(acts[a].data.items) IN
      IF fn # {}
        THEN featuredIds = { p.id : p \in { q \in Range(products) : q.name \in fn } }
        ELSE featuredIds = DEFAULT_FEATURED_IDS

\* C9: once the callbacks of a request that rejected with a network error or
\* was answered with a status outside 200..299 have run, error is 'offline',
\* loading is false, products is the static catalog and featuredIds is the
\* default set.
C9_TransportFailure ==
  \A a \in DOMAIN acts :
    (acts[a].pc = "done" /\ (NetworkError(a) \/ Non2xx(a)))
    => /\ error = "offline"
       /\ loading = FALSE
       /\ products = fallbackProducts
       /\ featuredIds = DEFAULT_FEATURED_IDS

\* C9 witness: a request answered 404 has run all its callbacks.
C9_Witness ==
  \E a \in DOMAIN acts :
    /\ acts[a].pc = "done" /\ acts[a].status = 404
    /\ error = "offline" /\ loading = FALSE

\* C10: the catch callback of a request ended by an abort leaves error as it
\* was, and as long as every rejection so far is an abort, error is null.
C10_AbortNotAnError ==
  /\ [][ \A a \in DOMAIN acts :
           (AbortEnded(a) /\ acts[a].pc = "catch" /\ Stepped(a))
           => error' = error ]_vars
  /\ []( (\A a \in DOMAIN acts : acts[a].err \in {"none", "AbortError"})
         => error = "null" )

\* C10 witnesses: a body read was aborted by the unmount and its catch
\* callback has run; error is null.
C10_Witness ==
  \E a \in DOMAIN acts :
    /\ AbortEnded(a) /\ ok(acts[a].status) /\ Ended(a)
    /\ error = "null"

\* The remote array holds an entry that is not a record.
HasNonRecord(items) == \E i \in DOMAIN items : DOMAIN items[i] # DOMAIN fallbackProducts[1]

\* C11: once the callbacks of a request answered 2xx with an empty array, a
\* non-array or an array holding an entry that is not a record have run,
\* products is the static catalog, featuredIds is the default set and error
\* is null.
C11_MalformedNoSignal ==
  \A a \in DOMAIN acts :
    ( /\ acts[a].pc = "done" /\ acts[a].status \in 200..299
      /\ acts[a].err \in {"none", "TypeError"}
      /\ \/ ~acts[a].data.isArray
         \/ acts[a].data.items = << >>
         \/ HasNonRecord(acts[a].data.items) )
    => /\ products = fallbackProducts
       /\ featuredIds = DEFAULT_FEATURED_IDS
       /\ error = "null"

\* Ids the lookup is asked for: every id of the model and one no record has.
LookupIds ==
  { r.id : r \in Range(fallbackProducts) } \cup { r.id : r \in RemoteRecords }
    \cup {"zz"}

\* C12 as stated: getProductById(id) is a record of products with that id when there
\* is one and the absent value otherwise; after a merge that dropped a static
\* product, the lookup of that product's id is absent.
C12_LookupDroppedIsAbsent ==
  /\ \A id \in LookupIds :
       IF \E p \in Range(products) : p.id = id
         THEN getProductById(id) \in Range(products) /\ getProductById(id).id = id
         ELSE getProductById(id) = AbsentProduct
  /\ \A a \in DOMAIN acts :
       Merged(a) =>
         \A r \in Range(fallbackProducts) :
           r.name \notin NamesOf(acts[a].data.items)
           => getProductById(r.id) = AbsentProduct

\* C12 amended: getProductById(id) is a record of products with that id when
\* there is one and the absent value otherwise; after a merge that dropped a
\* static product, the lookup of that product's id no longer returns that
\* product: it is absent unless a remote-only record of the merged catalog
\* carries the same id, and then it is that remote record.
C12_LookupAccessor ==
  /\ \A id \in LookupIds :
       IF \E p \in Range(products) : p.id = id
         THEN getProductById(id) \in Range(products) /\ getProductById(id).id = id
         ELSE getProductById(id) = AbsentProduct
  /\ \A a \in DOMAIN acts :
       Merged(a) =>
         \A r \in Range(fallbackProducts) :
           r.name \notin NamesOf(acts[a].data.items)
           => /\ getProductById(r.id) # r
              /\ IF \E q \in Range(acts[a].data.items) :
                      q.id = r.id /\ q.name \notin StaticNameSet
                   THEN getProductById(r.id) \in Range(acts[a].data.items)
                   ELSE getProductById(r.id) = AbsentProduct

\* C12 witness: a merge dropped the static product C and the lookup of its
\* id is absent, while the lookup of a retained id still answers.
C12_Witness ==
  \E a \in DOMAIN acts :
    /\ Merged(a)
    /\ "C" \notin NamesOf(acts[a].data.items)
    /\ getProductById("c1") = AbsentProduct
    /\ getProductById("l5") = fallbackProducts[2]

\* C13: a controller is aborted only by the teardown of its own activation
\* (the current activation's controller is intact while the component is
\* mounted and no cleanup has run for it), a teardown changes no other
\* activation, and products changes only in the merge callback of a request
\* whose controller is not aborted.
C13_PerActivationCancellation ==
  /\ []( \A a \in DOMAIN acts :
           acts[a].aborted => (a < Len(acts) \/ react \in {"rerun", "unmounted"}) )
  /\ [][ /\ \A a \in DOMAIN acts :
              (acts'[a].aborted /\ ~acts[a].aborted)
              => \A b \in DOMAIN acts : b # a => acts'[b] = acts[b]
         /\ (products' # products \/ featuredIds' # featuredIds)
              => \E a \in DOMAIN acts :
                   ~acts[a].aborted /\ acts[a].pc = "then2" /\ Stepped(a) ]_vars

\* C13 witness: the first activation was torn down and its request aborted;
\* the second activation's request completed and its merge was applied.
C13_Witness ==
  /\ Len(acts) = 2
  /\ acts[1].aborted /\ AbortEnded(1)
  /\ ~acts[2].aborted /\ Merged(2)
  /\ products # fallbackProducts
  /\ products[1] = fallbackProducts[2]

\* Number of times the effect has run.
EffectRuns ==
  IF react = "init" THEN 0
  ELSE IF strict /\ react \in {"mounted", "unmounted"} THEN 2 ELSE 1

\* C14: there is one request per run of the effect, a request that has left
\* the fetch is never issued again, and after the teardown of an activation
\* its request is no longer in flight.
C14_OneRequestPerActivation ==
  /\ []( Len(acts) = EffectRuns )
  /\ []( \A a \in DOMAIN acts : acts[a].aborted => acts[a].pc \notin Pending )
  /\ [][ \A a \in DOMAIN acts :
           acts[a].pc # "fetching" => acts'[a].pc # "fetching" ]_vars

\* C14 witness: a request that failed has run all its callbacks and the
\* activation still has that one request only.
C14_Witness ==
  /\ Len(acts) = 1 /\ react = "mounted"
  /\ acts[1].pc = "done" /\ NetworkError(1)

\* Ids of the records of catalog whose name is the name of a remote record
\* carrying a truthy featured flag.
FlaggedIds(catalog, items) ==
  { p.id : p \in { q \in Range(catalog) :
                     \E r \in Range(items) : r.name = q.name /\ Truthy(r.featured) } }

\* C15: in the step that replaces products by a merge result, featuredIds
\* takes its value for that merge too, so no state has the merged catalog
\* with a featured set the merge still has to change.
C15_AtomicUpdate ==
  /\ []( \A a \in DOMAIN acts :
           Merged(a) =>
             featuredIds = IF FlaggedIds(products, acts[a].data.items) # {}
                             THEN FlaggedIds(products, acts[a].data.items)
                             ELSE DEFAULT_FEATURED_IDS )
  /\ [][ \A a \in DOMAIN acts :
           (acts[a].pc = "then2" /\ Stepped(a) /\ products' # products)
           => featuredIds' = IF FlaggedIds(products', acts[a].data.items) # {}
                               THEN FlaggedIds(products', acts[a].data.items)
                               ELSE featuredIds ]_vars

\* C15 witness: one merge step has replaced both the catalog and the
\* featured set, and finally has not run yet.
C15_Witness ==
  \E a \in DOMAIN acts :
    /\ acts[a].pc = "finally" /\ Merged(a)
    /\ products # fallbackProducts
    /\ featuredIds # DEFAULT_FEATURED_IDS
    /\ featuredIds = FlaggedIds(products, acts[a].data.items)

\* C16: at most one request of a hook instance applies a merge, products and
\* featuredIds change only in the merge callback of a non-empty array and
\* only from the static catalog and the default set, and a state that is not
\* static/default is the result of that merge.
C16_MutatedAtMostOnce ==
  /\ []( Cardinality({ a \in DOMAIN acts : Merged(a) }) <= 1 )
  /\ []( (products # fallbackProducts \/ featuredIds # DEFAULT_FEATURED_IDS)
         => \E a \in DOMAIN acts : Merged(a) )
  /\ [][ (products' # products \/ featuredIds' # featuredIds)
         => /\ products = fallbackProducts
            /\ featuredIds = DEFAULT_FEATURED_IDS
            /\ \E a \in DOMAIN acts :
                 /\ acts[a].pc = "then2" /\ Stepped(a)
                 /\ acts[a].data.isArray /\ acts[a].data.items # << >> ]_vars

\* C16 witness: under StrictMode, with two activations finished, the catalog
\* holds its second value, the merge result of the one request that merged.
C16_Witness ==
  /\ Len(acts) = 2 /\ acts[1].pc = "done" /\ acts[2].pc = "done"
  /\ Merged(2) /\ ~Merged(1)
  /\ products # fallbackProducts

\* C17: the merge callback applied again to the payload of the previous
\* successful reconciliation leaves products and featuredIds as they are,
\* and the catalog after any reconciliation is determined by the static
\* catalog and the payload alone.
C17_Idempotence ==
  /\ [][ \A a \in DOMAIN acts :
           ( /\ a > 1 /\ acts[a].pc = "then2" /\ Stepped(a)
             /\ Merged(a - 1) /\ acts[a].data = acts[a - 1].data )
           => (products' = products /\ featuredIds' = featuredIds) ]_vars
  /\ []( \A a \in DOMAIN acts :
           Merged(a) =>
             products =
               SelectSeq(fallbackProducts,
                         LAMBDA p : p.name \in NamesOf(acts[a].data.items))
               \o SelectSeq(acts[a].data.items,
                            LAMBDA p : p.name \notin StaticNameSet) )

\* C17 witness: the payload [B, D] has been reconciled twice and the catalog
\* is the one the first reconciliation gave.
C17_Witness ==
  /\ Len(acts) = 2 /\ Merged(1) /\ Merged(2)
  /\ acts[2].pc = "done"
  /\ NamesOf(acts[2].data.items) = {"B", "D"}
  /\ Len(products) = 2

\* The transport has settled the request of activation a: the fetch was
\* rejected or aborted, the response head carries a status outside 200..299,
\* or the body read has resolved, been rejected or been aborted.
Settled(a) ==
  /\ a \in DOMAIN acts
  /\ \/ acts[a].pc \in {"then2", "catch", "finally"}
     \/ acts[a].pc = "then1" /\ ~(acts[a].status \in 200..299)

\* C18: once the transport has settled a request, loading becomes false as
\* long as the component is mounted; and loading is true for as long as no
\* request has run its chain to the end (there is no timeout).
C18_LoadingLiveness ==
  /\ \A a \in 1..2 : Settled(a) ~> (loading = FALSE \/ react = "unmounted")
  /\ []( (\A a \in DOMAIN acts : acts[a].pc # "done") => loading = TRUE )

\* C18 witness: a request that was answered with an unusable payload has run
\* its chain to the end and loading is false.
C18_Witness ==
  \E a \in DOMAIN acts :
    /\ acts[a].pc = "done" /\ EmptyOrNonArray(a) /\ ~acts[a].data.isArray
    /\ loading = FALSE

\* C19: every rejection of the chain (network error, non-2xx status, body
\* that is no JSON, exception in the merge callback) goes through the catch
\* handler and then finally: a chain that ended rejected by anything but an
\* abort has recorded 'offline' and cleared loading, and the hook still
\* returns the static catalog; the catalog returned is never empty.
C19_RejectionsAbsorbed ==
  /\ Len(products) > 0
  /\ \A a \in DOMAIN acts :
       /\ acts[a].err # "none" => acts[a].pc \in {"catch", "finally", "done"}
       /\ (acts[a].err \notin {"none", "AbortError"} /\ Ended(a))
            => error = "offline" /\ products = fallbackProducts
       /\ (acts[a].err \notin {"none", "AbortError"} /\ acts[a].pc = "done")
            => loading = FALSE

\* C19 witness: the merge callback threw on a null entry, the catch and
\* finally handlers have run and the static catalog is returned.
C19_Witness ==
  \E a \in DOMAIN acts :
    /\ acts[a].pc = "done" /\ acts[a].err = "TypeError"
    /\ acts[a].data.isArray /\ HasNonRecord(acts[a].data.items)
    /\ error = "offline" /\ loading = FALSE
    /\ products = fallbackProducts

\* C20: after a merge, products is the retained static records in static
\* order followed by the remote-only records in payload order, no
\* remote-only record preceding a static one; with remote [B, D(featured)]
\* products is [B, D] and featuredIds is {id of D}.
C20_CatalogOrder ==
  \A a \in DOMAIN acts :
    Merged(a) =>
      LET items == acts[a].data.items IN
      /\ \A i, j \in DOMAIN products :
           (products[i].name \notin StaticNameSet
              /\ products[j].name \in StaticNameSet) => j < i
      /\ SelectSeq(products, LAMBDA p : p.name \in StaticNameSet)
           = SelectSeq(fallbackProducts, LAMBDA p : p.name \in NamesOf(items))
      /\ SelectSeq(products, LAMBDA p : p.name \notin StaticNameSet)
           = SelectSeq(items, LAMBDA p : p.name \notin StaticNameSet)
      /\ ( /\ Len(items) = 2
           /\ items[1].name = "B" /\ items[1].featured \in {"false", Undefined}
           /\ items[2].name = "D" /\ items[2].featured = "true" )
         => /\ products = << fallbackProducts[2], items[2] >>
            /\ featuredIds = { items[2].id }

\* C20 witness: the remote array [B, D(featured)] has been merged.
C20_Witness ==
  \E a \in DOMAIN acts :
    /\ Merged(a)
    /\ Len(acts[a].data.items) = 2
    /\ acts[a].data.items[1].name = "B"
    /\ acts[a].data.items[1].featured = Undefined
    /\ acts[a].data.items[2].name = "D"
    /\ acts[a].data.items[2].featured = "true"
    /\ acts[a].data.items[2].id = "r1"
    /\ Len(products) = 2 /\ products[2].name = "D"
    /\ featuredIds = {"r1"}

\* C21: after a merge, the names collected as featured are exactly the names
\* of the remote records whose featured field is the boolean true, and a
\* payload in which no record has featured true leaves featuredIds the
\* default set.
C21_OnlyBooleanTrue ==
  \A a \in DOMAIN acts :
    Merged(a) =>
      /\ featuredNames(acts[a].data) = TrueFeaturedNames(acts[a].data.items)
      /\ TrueFeaturedNames(acts[a].data.items) = {}
           => featuredIds = DEFAULT_FEATURED_IDS

\* The id the static catalog gives to the product named n.
StaticIdOf(n) ==
  (CHOOSE r \in Range(fallbackProducts) : r.name = n).id

\* C22: after a merge, the id of every retained static record whose name a
\* remote record flags featured is in featuredIds, whatever id that remote
\* record carries, and a replaced featuredIds holds ids of records of
\* products only.
C22_FeaturedIdsFromCatalog ==
  \A a \in DOMAIN acts :
    Merged(a) =>
      /\ \A r \in Range(acts[a].data.items) :
           (r.featured = "true" /\ r.name \in StaticNameSet)
           => StaticIdOf(r.name) \in featuredIds
      /\ featuredIds # DEFAULT_FEATURED_IDS
           => featuredIds \subseteq { p.id : p \in Range(products) }

\* C22 witness: the remote record named A carries id r1 and is flagged; the
\* featured set holds the static id u8 and not r1.
C22_Witness ==
  \E a \in DOMAIN acts :
    /\ Merged(a)
    /\ \E r \in Range(acts[a].data.items) :
         r.name = "A" /\ r.id = "r1" /\ r.featured = "true"
    /\ featuredIds = {"u8"}

\* No two positions of s hold records with the same id.
IdsUnique(s) == \A i, j \in DOMAIN s : s[i].id = s[j].id => i = j

\* The remote-only records of a payload carry ids that differ from one
\* another and from every id of the static catalog.
FreshIds(items) ==
  LET new == SelectSeq(items, LAMBDA p : p.name \notin StaticNameSet) IN
  /\ IdsUnique(new)
  /\ \A i \in DOMAIN new :
       new[i].id \notin { r.id : r \in Range(fallbackProducts) }

C24_CatalogNeverEmpty ==
  /\ Len(products) >= 1
  /\ \A a \in DOMAIN acts :
       Merged(a) =>
         \A r \in Range(acts[a].data.items) :
           \E p \in Range(products) : p.name = r.name

\* C24 witness: a merge of a one-record array of a new product left a
\* catalog of exactly one record.
C24_Witness ==
  \E a \in DOMAIN acts :
    /\ Merged(a) /\ Len(acts[a].data.items) = 1
    /\ acts[a].data.items[1].name = "E"
    /\ products = acts[a].data.items

\* No callback of the chain of activation a has run yet: the request is in
\* flight, or it has settled (or was aborted) and its first callback is
\* queued.
NoCallbackRan(a) ==
  \/ acts[a].pc \in {"fetching", "then1"}
  \/ acts[a].pc = "catch" /\ acts[a].status = 0

\* C25: as long as no callback of any request has run, products is the
\* static catalog, featuredIds the default set, loading true, error null,
\* and featuredProducts the static records whose id is a default featured
\* id, in static order.
C25_InitialState ==
  (\A a \in DOMAIN acts : NoCallbackRan(a))
  => /\ products = fallbackProducts
     /\ featuredIds = DEFAULT_FEATURED_IDS
     /\ loading = TRUE
     /\ error = "null"
     /\ featuredProducts
          = SelectSeq(fallbackProducts, LAMBDA p : p.id \in DEFAULT_FEATURED_IDS)

\* C25 witness: the component is mounted, the response head has arrived and
\* the first callback is queued; the hook still returns its initial values.
C25_Witness ==
  /\ react = "mounted" /\ Len(acts) = 1
  /\ acts[1].pc = "then1" /\ acts[1].status = 200
  /\ loading = TRUE /\ error = "null"
  /\ featuredProducts = << fallbackProducts[1], fallbackProducts[2] >>

\* C26: after a merge of a non-empty remote array whose records all have a
\* name, the set of names of products equals the set of names of the array.
C26_NameSetEquality ==
  \A a \in DOMAIN acts :
    Merged(a) => NamesOf(products) = NamesOf(acts[a].data.items)

\* C26 witness: a merge of an array naming the static B and the new E left
\* exactly the names B and E.
C26_Witness ==
  \E a \in DOMAIN acts :
    /\ Merged(a)
    /\ NamesOf(acts[a].data.items) = {"B", "E"}
    /\ NamesOf(products) = NamesOf(acts[a].data.items)
    /\ Len(products) = 2

\* C27: in every state in which error is not null, products is the static
\* catalog, featuredIds is the default set and no request has applied a
\* merge.
C27_ErrorImpliesStatic ==
  error # "null"
  => /\ products = fallbackProducts
     /\ featuredIds = DEFAULT_FEATURED_IDS
     /\ \A a \in DOMAIN acts : ~Merged(a)

\* C27 witness: the merge callback threw on the null second entry of a 200
\* response after a well-formed first entry; error is 'offline' and the
\* catalog is untouched.
C27_Witness ==
  \E a \in DOMAIN acts :
    /\ acts[a].err = "TypeError" /\ acts[a].status = 200
    /\ Len(acts[a].data.items) = 2
    /\ ~IsNull(acts[a].data.items[1]) /\ IsNull(acts[a].data.items[2])
    /\ error = "offline"
    /\ products = fallbackProducts /\ featuredIds = DEFAULT_FEATURED_IDS

\* The request of activation a has been answered with a non-empty array of
\* records: the merge callback is queued or has run.
Succeeded(a) ==
  /\ acts[a].pc \in {"then2", "finally", "done"}
  /\ acts[a].err = "none"
  /\ acts[a].data.isArray /\ acts[a].data.items # << >>
  /\ ~Throws(acts[a].data)

\* C28: in every state in which loading is false and the request of an
\* activation has succeeded with a non-empty array, products is the merge
\* result of that array and featuredIds has been replaced by its featured
\* ids if there are any.
C28_MergeBeforeLoadingFalse ==
  \A a \in DOMAIN acts :
    (loading = FALSE /\ Succeeded(a))
    => /\ products = merged(acts[a].data)
       /\ featuredFromAirtable(acts[a].data) # {}
            => featuredIds = featuredFromAirtable(acts[a].data)

\* s is t with some positions left out.
IsSubseq(s, t) ==
  \E f \in [DOMAIN s -> DOMAIN t] :
    /\ \A i, j \in DOMAIN s : i < j => f[i] < f[j]
    /\ \A i \in DOMAIN s : t[f[i]] = s[i]

\* C29: in every state featuredProducts is products with some positions left
\* out (records of the catalog, in catalog order), and after a merge of a
\* payload in which a record has featured true it is not empty.
C29_FeaturedWithinCatalog ==
  /\ IsSubseq(featuredProducts, products)
  /\ \A a \in DOMAIN acts :
       (Merged(a) /\ TrueFeaturedNames(acts[a].data.items) # {})
       => featuredProducts # << >>

\* C29 witness: a merge of [E(featured), B] left the catalog [B, E] and the
\* featured list [E].
C29_Witness ==
  \E a \in DOMAIN acts :
    /\ Merged(a) /\ Len(acts[a].data.items) = 2
    /\ acts[a].data.items[1].name = "E"
    /\ acts[a].data.items[1].featured = "true"
    /\ acts[a].data.items[2].name = "B"
    /\ acts[a].data.items[2].featured = "false"
    /\ Len(products) = 2
    /\ featuredProducts = << products[2] >>

\* C30: no step takes loading from false back to true.
C30_LoadingMonotone ==
  [][ loading = FALSE => loading' = FALSE ]_vars

\* C30 witness: under StrictMode the aborted first chain cleared loading and
\* the chain of the second run of the effect has since run to its end.
C30_Witness ==
  /\ Len(acts) = 2
  /\ acts[1].pc = "done" /\ acts[1].aborted
  /\ acts[2].pc = "done" /\ acts[2].status = 200
  /\ loading = FALSE

\* C31: in every reachable state the imported array of static products and
\* the Set of default featured ids hold the values they were built with.
C31_StaticDataUntouched ==
  /\ moduleObjects.fallbackProducts = fallbackProducts
  /\ moduleObjects.DEFAULT_FEATURED_IDS = DEFAULT_FEATURED_IDS

\* C31 witness: after the StrictMode double run of the effect, an aborted
\* first request and a merge by the second one that dropped static products
\* and replaced the featured set, both objects are as built.
C31_Witness ==
  /\ Len(acts) = 2
  /\ acts[1].pc = "done" /\ acts[1].aborted
  /\ acts[2].pc = "done" /\ Merged(2)
  /\ products # fallbackProducts
  /\ featuredIds # DEFAULT_FEATURED_IDS
  /\ moduleObjects = ModuleObjects

====
